---- MODULE Spec2Model ----
(***************************************************************************)
(* Model of src/main.py (EML viewer): the parallel fetch-and-parse         *)
(* pipeline process_emails_parallel with its worker pool, the message      *)
(* parser parse_s3_eml, and the date sort performed by main.               *)
(*                                                                         *)
(* Three groups of behaviours are described over one set of variables:     *)
(*   Spec / FairSpec : one run of process_emails_parallel                  *)
(*   ParseSpec       : one call of parse_s3_eml on a message               *)
(*   SortSpec        : the sort of all_emails_data in main                 *)
(***************************************************************************)
EXTENDS Integers, Sequences, FiniteSets

VARIABLES
    bucket,           \* bucket[i]: the S3 object stored under key eml_files[i]
    max_workers,      \* size of the ThreadPoolExecutor
    task,             \* task[i]: state of the future submitted for eml_files[i]
    runs,             \* runs[i]: how many times process_single_email started for key i
    parsed,           \* parsed[i]: parse_s3_eml has been invoked on the blob of key i
    future,           \* future[i]: the value the future holds once finished
    submitted,        \* number of keys submitted so far (dict comprehension, line 236)
    pcMain,           \* position of the calling thread in process_emails_parallel
    cur,              \* the future as_completed yielded last
    yielded,          \* the futures as_completed has yielded
    completed,        \* line 241
    total,            \* line 242
    all_emails_data,  \* line 226
    max_attachments,  \* line 227
    progress,         \* the notifications sent to progress_bar / status_text
    msg,              \* ParseSpec: the message given to parse_s3_eml
    parse_result,     \* ParseSpec: what parse_s3_eml returned
    emails,           \* SortSpec: all_emails_data as process_emails_parallel returned it
    sorted_emails,    \* SortSpec: all_emails_data after the sort
    pcAux             \* ParseSpec / SortSpec: "idle", "called" or "done"

pipeVars == <<bucket, max_workers, task, runs, parsed, future, submitted, pcMain,
              cur, yielded, completed, total, all_emails_data, max_attachments,
              progress>>
auxVars == <<msg, parse_result, emails, sorted_emails, pcAux>>
vars == <<pipeVars, auxVars>>

\* ---------------------------------------------------------------- bounds
MaxKeys == 3
MaxWorkers == 2
MaxAtt == 2

\* ---------------------------------------------------------------- values
\* Python's None and a present value, as sequences of length 0 and 1.
None == <<>>
Some(x) == <<x>>
IsNone(v) == v = <<>>

RECURSIVE SeqsUpTo(_, _)
SeqsUpTo(S, n) ==
    IF n = 0 THEN {<<>>}
    ELSE LET R == SeqsUpTo(S, n - 1)
         IN  R \cup {Append(s, x) : s \in {r \in R : Len(r) = n - 1}, x \in S}

RECURSIVE SeqMax(_)
SeqMax(s) ==
    IF s = <<>> THEN 0
    ELSE LET m == SeqMax(Tail(s)) IN IF Head(s) > m THEN Head(s) ELSE m

\* The objects a key can name.  kind is
\*   "missing"   get_object raises ClientError
\*   "raises"    get_object raises another exception (connection, credentials)
\*   "empty"     a zero-length object: get_object returns b''
\*   "malformed" bytes on which parse_s3_eml fails (returns None)
\*   "eml"       bytes parse_s3_eml turns into a record with these attachments
Blobs ==
    {[kind |-> k, attachments |-> <<>>] : k \in {"missing", "raises", "empty", "malformed"}}
    \cup {[kind |-> "eml", attachments |-> a] : a \in SeqsUpTo({"att"}, MaxAtt)}

\* ---------------------------------------------------------------- workers
\* download_eml_from_s3: <<"raise">> when an exception other than ClientError
\* escapes, <<"return", None>> on ClientError, <<"return", Some(blob)>> otherwise.
download_eml_from_s3(blob) ==
    CASE blob.kind = "raises" -> <<"raise", None>>
      [] blob.kind = "missing" -> <<"return", None>>
      [] OTHER -> <<"return", Some(blob)>>

\* `if file_content:` : None and b'' are both falsy.
Truthy(file_content) ==
    ~IsNone(file_content) /\ file_content[1].kind # "empty"

\* parse_s3_eml as the pipeline sees it: None or a record.  key is not a field
\* of the source's record; it only tells the records of different keys apart.
\* The parser accepts b'': BytesParser yields a message without headers whose
\* single text/plain part is empty, and the record has no attachments.
ParseBlob(blob, key) ==
    IF blob.kind \in {"eml", "empty"}
    THEN Some([key |-> key, attachments |-> blob.attachments])
    ELSE None

Keys == 1..Len(bucket)
Running == {i \in Keys : task[i] \in {"fetching", "parsing"}}
Queued == {i \in Keys : task[i] = "queued"}

\* The pool has max_workers threads: a queued work item is taken only while
\* fewer than max_workers are running; the work queue is first in, first out.
PoolHasIdleWorkerUnbounded == TRUE
PoolHasIdleWorker == Cardinality(Running) < max_workers

WorkerStart(i) ==
    /\ task[i] = "queued"
    /\ \A j \in Queued : i <= j
    /\ PoolHasIdleWorker
    /\ task' = [task EXCEPT ![i] = "fetching"]
    /\ runs' = [runs EXCEPT ![i] = @ + 1]
    /\ UNCHANGED <<bucket, max_workers, parsed, future, submitted, pcMain, cur,
                   yielded, completed, total, all_emails_data, max_attachments,
                   progress, auxVars>>

\* process_single_email up to the call of parse_s3_eml (lines 216-218, 220-222).
WorkerFetchDies(i) ==
    /\ task[i] = "fetching"
    /\ LET r == download_eml_from_s3(bucket[i])
       IN  IF r[1] = "return" /\ Truthy(r[2])
           THEN /\ task' = [task EXCEPT ![i] = "parsing"]
                /\ UNCHANGED future
           ELSE IF r[1] = "raise"
           THEN UNCHANGED <<task, future>>
           ELSE /\ task' = [task EXCEPT ![i] = "finished"]
                /\ future' = [future EXCEPT ![i] = None]
    /\ UNCHANGED <<bucket, max_workers, runs, parsed, submitted, pcMain, cur,
                   yielded, completed, total, all_emails_data, max_attachments,
                   progress, auxVars>>

WorkerFetch(i) ==
    /\ task[i] = "fetching"
    /\ LET r == download_eml_from_s3(bucket[i])
       IN  IF r[1] = "return" /\ Truthy(r[2])
           THEN /\ task' = [task EXCEPT ![i] = "parsing"]
                /\ UNCHANGED future
           ELSE /\ task' = [task EXCEPT ![i] = "finished"]
                /\ future' = [future EXCEPT ![i] = None]
    /\ UNCHANGED <<bucket, max_workers, runs, parsed, submitted, pcMain, cur,
                   yielded, completed, total, all_emails_data, max_attachments,
                   progress, auxVars>>

\* process_single_email, line 219: return parse_s3_eml(file_content, file_key).
WorkerParseRacy(i) ==
    /\ task[i] = "parsing"
    /\ task' = [task EXCEPT ![i] = "finished"]
    /\ parsed' = [parsed EXCEPT ![i] = TRUE]
    /\ future' = [future EXCEPT ![i] = ParseBlob(bucket[i], i)]
    /\ completed' = completed + 1
    /\ UNCHANGED <<bucket, max_workers, runs, submitted, pcMain, cur, yielded,
                   total, all_emails_data, max_attachments, progress, auxVars>>

WorkerParse(i) ==
    /\ task[i] = "parsing"
    /\ task' = [task EXCEPT ![i] = "finished"]
    /\ parsed' = [parsed EXCEPT ![i] = TRUE]
    /\ future' = [future EXCEPT ![i] = ParseBlob(bucket[i], i)]
    /\ UNCHANGED <<bucket, max_workers, runs, submitted, pcMain, cur, yielded,
                   completed, total, all_emails_data, max_attachments, progress,
                   auxVars>>

\* ---------------------------------------------------------------- calling thread
\* executor.submit for the next key of eml_files (lines 236-239).
Submit ==
    /\ pcMain = "submit"
    /\ submitted < Len(bucket)
    /\ submitted' = submitted + 1
    /\ task' = [task EXCEPT ![submitted + 1] = "queued"]
    /\ UNCHANGED <<bucket, max_workers, runs, parsed, future, pcMain, cur,
                   yielded, completed, total, all_emails_data, max_attachments,
                   progress, auxVars>>

\* completed = 0; total = len(eml_files) (lines 241-242).
EnterLoop ==
    /\ pcMain = "submit"
    /\ submitted = Len(bucket)
    /\ pcMain' = "wait"
    /\ completed' = 0
    /\ total' = Len(bucket)
    /\ UNCHANGED <<bucket, max_workers, task, runs, parsed, future, submitted,
                   cur, yielded, all_emails_data, max_attachments, progress,
                   auxVars>>

\* as_completed yields a finished future it has not yielded before; the loop
\* body counts it and reports progress (lines 245-251).
BumpOff(c) == c
Bump(c) == c + 1

NextCompleted ==
    /\ pcMain = "wait"
    /\ \E i \in Keys \ yielded :
        /\ task[i] = "finished"
        /\ cur' = i
        /\ yielded' = yielded \cup {i}
    /\ completed' = Bump(completed)
    /\ progress' = Append(progress, <<completed', total>>)
    /\ pcMain' = "result"
    /\ UNCHANGED <<bucket, max_workers, task, runs, parsed, future, submitted,
                   total, all_emails_data, max_attachments, auxVars>>

\* Lines 258-259: the running maximum of len(email_data['attachments']).
TrackMaxLast(email_data, m) == Len(email_data.attachments)
TrackMax(email_data, m) ==
    IF Len(email_data.attachments) > m THEN Len(email_data.attachments) ELSE m

\* email_data = future.result(); a record is appended and counted for the
\* maximum, None is dropped (lines 253-262).
HandleResult ==
    /\ pcMain = "result"
    /\ LET email_data == future[cur]
       IN  IF ~IsNone(email_data)
           THEN /\ all_emails_data' = Append(all_emails_data, email_data[1])
                /\ max_attachments' = TrackMax(email_data[1], max_attachments)
           ELSE UNCHANGED <<all_emails_data, max_attachments>>
    /\ pcMain' = "wait"
    /\ UNCHANGED <<bucket, max_workers, task, runs, parsed, future, submitted,
                   cur, yielded, completed, total, progress, auxVars>>

\* as_completed is exhausted, the executor is shut down and the function
\* returns all_emails_data, max_attachments (lines 263-267).
Return ==
    /\ pcMain = "wait"
    /\ yielded = Keys
    /\ pcMain' = "returned"
    /\ UNCHANGED <<bucket, max_workers, task, runs, parsed, future, submitted,
                   cur, yielded, completed, total, all_emails_data,
                   max_attachments, progress, auxVars>>

AuxIdle ==
    /\ msg = None
    /\ parse_result = None
    /\ emails = <<>>
    /\ sorted_emails = <<>>
    /\ pcAux = "idle"

\* The state at entry of process_emails_parallel (lines 226-234): any key list
\* of up to MaxKeys keys over any bucket content, any positive pool size.
Init ==
    /\ bucket \in SeqsUpTo(Blobs, MaxKeys)
    /\ max_workers \in 1..MaxWorkers
    /\ task = [i \in 1..Len(bucket) |-> "unsubmitted"]
    /\ runs = [i \in 1..Len(bucket) |-> 0]
    /\ parsed = [i \in 1..Len(bucket) |-> FALSE]
    /\ future = [i \in 1..Len(bucket) |-> None]
    /\ submitted = 0
    /\ pcMain = "submit"
    /\ cur = 0
    /\ yielded = {}
    /\ completed = 0
    /\ total = 0
    /\ all_emails_data = <<>>
    /\ max_attachments = 0
    /\ progress = <<>>
    /\ AuxIdle

Start == \E i \in Keys : WorkerStart(i)
Fetch == \E i \in Keys : WorkerFetch(i)
Parse == \E i \in Keys : WorkerParse(i)

Worker == Start \/ Fetch \/ Parse

Main == Submit \/ EnterLoop \/ NextCompleted \/ HandleResult \/ Return

Next == Worker \/ Main

Spec == Init /\ [][Next]_vars

\* The pool's threads and the calling thread are scheduled by the operating
\* system: none of them is held back forever while it can take a step.
\* Whether a run ends does not depend on what the records hold, so the runs
\* checked for termination start from buckets whose messages carry no
\* attachment.
FairInit == Init /\ \A i \in 1..Len(bucket) : bucket[i].attachments = <<>>

FairSpec == FairInit /\ [][Next]_vars /\ WF_vars(Worker) /\ WF_vars(Main)

\* ---------------------------------------------------------------- pipeline properties
Returned == pcMain = "returned"
FetchSucceeded(i) == bucket[i].kind \in {"empty", "malformed", "eml"}
ParserAccepts(blob) == ~IsNone(ParseBlob(blob, 0))
RecordsOf(i) == {k \in 1..Len(all_emails_data) : all_emails_data[k].key = i}
Successful == {i \in Keys : task[i] = "finished" /\ ~IsNone(future[i])}
AttachmentCounts ==
    [k \in 1..Len(all_emails_data) |-> Len(all_emails_data[k].attachments)]

\* C1: when process_emails_parallel has returned, the result list holds exactly
\* one record for every key whose fetch succeeded with a blob the parser
\* accepts and no record for any other key, and every blob that was fetched
\* was handed to the parser.
C1_OneRecordPerFetchedAndParsedKey ==
    Returned =>
        /\ \A i \in Keys :
              Cardinality(RecordsOf(i)) =
                  IF FetchSucceeded(i) /\ ParserAccepts(bucket[i]) THEN 1 ELSE 0
        /\ \A i \in Keys : FetchSucceeded(i) => parsed[i]

\* C2: the k-th progress notification is (k, total); there is one per future
\* yielded by as_completed, never more than total, and after the return the
\* last one is (total, total).
C2_ProgressCountsEachTaskOnce ==
    /\ \A k \in 1..Len(progress) : progress[k] = <<k, Len(bucket)>>
    /\ Len(progress) = Cardinality(yielded)
    /\ Len(progress) <= Len(bucket)
    /\ completed = Len(progress)
    /\ (Returned /\ Len(bucket) > 0) =>
           progress[Len(progress)] = <<Len(bucket), Len(bucket)>>

C2_Witness ==
    /\ Returned
    /\ Len(progress) = 3
    /\ \E i \in Keys : bucket[i].kind = "missing"
    /\ \E i \in Keys : bucket[i].kind = "eml"

\* C3: under fair scheduling every run ends: every key's task finishes,
\* whatever fails, and the function returns with completed = total.
C3_EveryRunReturns ==
    <>(/\ Returned
       /\ \A i \in Keys : task[i] = "finished" /\ runs[i] = 1
       /\ completed = total
       /\ total = Len(bucket))

C3_Witness ==
    /\ Returned
    /\ completed = 3
    /\ bucket[1].kind = "raises"
    /\ bucket[2].kind = "malformed"
    /\ bucket[3].kind = "eml"
    /\ Len(all_emails_data) = 1

\* C5: the returned max_attachments is the largest attachment count among the
\* returned records, 0 when there are none.
C5_MaxAttachmentsIsMaxOverResults ==
    Returned => max_attachments = SeqMax(AttachmentCounts)

C5_Witness ==
    /\ Returned
    /\ Len(all_emails_data) = 2
    /\ Len(all_emails_data[1].attachments) = 2
    /\ Len(all_emails_data[2].attachments) = 1
    /\ \E i \in Keys : bucket[i].kind = "malformed"
    /\ max_attachments = 2

C5_WitnessEmpty ==
    /\ Returned
    /\ Len(bucket) = 2
    /\ all_emails_data = <<>>
    /\ max_attachments = 0

\* C9: never more than max_workers tasks run at once; no task starts twice,
\* none starts before it is submitted, and at the return every key's task has
\* started exactly once.
C9_BoundedWorkersOneTaskPerKey ==
    /\ Cardinality(Running) <= max_workers
    /\ submitted <= Len(bucket)
    /\ \A i \in Keys : runs[i] <= 1 /\ (runs[i] = 1 => i <= submitted)
    /\ Returned => \A i \in Keys : runs[i] = 1

C9_Witness ==
    /\ Cardinality(Running) = max_workers
    /\ Queued # {}
    /\ submitted = Len(bucket)

\* C10: completed, all_emails_data and max_attachments are written by the
\* calling thread only, never in a step of a worker, so no update is lost: at
\* the return completed is the number of tasks and the accumulator holds the
\* record of every future that finished with one.
C10_SharedStateWrittenByCallerOnly ==
    /\ [][(\/ completed' # completed
           \/ all_emails_data' # all_emails_data
           \/ max_attachments' # max_attachments)
          => (task' = task /\ future' = future /\ pcMain' # pcMain)]_vars
    /\ [](Returned =>
            /\ completed = Len(bucket)
            /\ {all_emails_data[k] : k \in 1..Len(all_emails_data)}
                  = {future[i][1] : i \in Successful}
            /\ Len(all_emails_data) = Cardinality(Successful))

C10_Witness ==
    /\ pcMain = "result"
    /\ Cardinality({i \in Keys : task[i] = "finished"} \ yielded) >= 2
    /\ completed = 1

\* ================================================================ parse_s3_eml
MaxParts == 2

\* A str and a bytes value with the same characters are different values:
\* <<"str", c>> and <<"bytes", c>>.  c = 0 is the empty text.
Str(c) == <<"str", c>>
Bytes(c) == <<"bytes", c>>
EmptyStr == Str(0)
encode(content) == IF content[1] = "str" THEN Bytes(content[2]) ELSE content

\* What the walk reads of a part: get_content_type(), the text of the
\* Content-Disposition header ('' when absent), get_filename() (the filename
\* parameter of Content-Disposition, else the name parameter of Content-Type;
\* None when neither is there) and whether get_content() succeeds.  A header
\* `inline; filename="report.pdf"` reads like an absent one to this code and is
\* not listed apart.
ContentTypes == {"text/plain", "text/html", "application/pdf"}
DispositionAndFilename ==
    {<<"", None>>, <<"", Some("")>>, <<"", Some("report.pdf")>>,
     <<"attachment", None>>, <<"attachment", Some("")>>,
     <<"attachment", Some("report.pdf")>>,
     <<"inline; filename=attachment.txt", Some("attachment.txt")>>}
PartKinds ==
    {[content_type |-> t, content_disposition |-> d[1], filename |-> d[2],
      decodes |-> ok] : t \in ContentTypes, d \in DispositionAndFilename,
                        ok \in BOOLEAN}

\* The k-th part visited by msg.walk() carries the content k, so that the
\* contents of different parts differ.
WithContent(kinds) ==
    [k \in 1..Len(kinds) |->
        [content_type |-> kinds[k].content_type,
         content_disposition |-> kinds[k].content_disposition,
         filename |-> kinds[k].filename,
         decodes |-> kinds[k].decodes,
         content |-> k]]

\* The headers of a message: each of Subject, From, To, Date present or absent.
ValidDate == "Mon, 02 Jan 2023 15:04:05 +0000"
HeaderSets ==
    {[Subject |-> None, From |-> None, To |-> None, Date |-> None],
     [Subject |-> Some("Hello"), From |-> Some("a@example.org"),
      To |-> Some("b@example.org"), Date |-> Some(ValidDate)],
     [Subject |-> Some("Hello"), From |-> Some("a@example.org"),
      To |-> Some("b@example.org"), Date |-> Some("not-a-date")]}

Messages ==
    {[headers |-> h, parts |-> WithContent(ks)] :
        h \in HeaderSets, ks \in SeqsUpTo(PartKinds, MaxParts)}

\* msg.get(name, default)
get(headers, name, default) ==
    IF IsNone(headers[name]) THEN default ELSE headers[name][1]

\* parse_and_format_date (lines 78-92), local time being UTC: the display
\* text and the datetime (here its POSIX timestamp), or the text unchanged
\* and None when parsedate_tz rejects it.
parse_and_format_date(date_string) ==
    IF date_string = ValidDate
    THEN <<"02/01/2023 15:04:05", Some(1672671845)>>
    ELSE <<date_string, None>>

\* 'attachment' in content_disposition: a substring test on the header text.
HasAttachmentWord(content_disposition) ==
    content_disposition \in {"attachment", "inline; filename=attachment.txt"}

\* The truth value of get_filename(): None and '' are falsy.
TruthyName(filename) == ~IsNone(filename) /\ filename # Some("")

\* part.get_content(): text parts decode to str, other parts to bytes.
get_content(part) ==
    IF part.content_type \in {"text/plain", "text/html"}
    THEN Str(part.content) ELSE Bytes(part.content)

\* Lines 179 and 181: the body variable is assigned at every qualifying part.
AssignBody(old, new) == new

\* Lines 185-198: the attachment branch.  acc.raised tells that an exception
\* left the walk.
AttachRaises(acc, part) ==
    IF TruthyName(part.filename)
    THEN IF part.decodes
         THEN [acc EXCEPT !.attachments =
                  Append(@, [filename |-> part.filename[1],
                             content |-> encode(get_content(part)),
                             content_type |-> part.content_type])]
         ELSE [acc EXCEPT !.raised = TRUE]
    ELSE acc

Attach(acc, part) ==
    IF TruthyName(part.filename)
    THEN IF part.decodes
         THEN [acc EXCEPT !.attachments =
                  Append(@, [filename |-> part.filename[1],
                             content |-> encode(get_content(part)),
                             content_type |-> part.content_type])]
         ELSE acc
    ELSE acc

\* The body of the loop over msg.walk() (lines 174-198) with the if / elif
\* branches taken independently of each other.
WalkPartIndependent(acc, part) ==
    LET a1 == IF part.content_type = "text/plain"
                 /\ ~HasAttachmentWord(part.content_disposition)
              THEN IF part.decodes
                   THEN [acc EXCEPT !.body_text = AssignBody(@, get_content(part))]
                   ELSE [acc EXCEPT !.raised = TRUE]
              ELSE IF part.content_type = "text/html"
                      /\ ~HasAttachmentWord(part.content_disposition)
              THEN IF part.decodes
                   THEN [acc EXCEPT !.body_html = AssignBody(@, get_content(part))]
                   ELSE [acc EXCEPT !.raised = TRUE]
              ELSE acc
    IN  IF HasAttachmentWord(part.content_disposition) \/ TruthyName(part.filename)
        THEN Attach(a1, part)
        ELSE a1

\* The body of the loop over msg.walk() (lines 174-198).
WalkPart(acc, part) ==
    IF part.content_type = "text/plain"
       /\ ~HasAttachmentWord(part.content_disposition)
    THEN IF part.decodes
         THEN [acc EXCEPT !.body_text = AssignBody(@, get_content(part))]
         ELSE [acc EXCEPT !.raised = TRUE]
    ELSE IF part.content_type = "text/html"
            /\ ~HasAttachmentWord(part.content_disposition)
    THEN IF part.decodes
         THEN [acc EXCEPT !.body_html = AssignBody(@, get_content(part))]
         ELSE [acc EXCEPT !.raised = TRUE]
    ELSE IF HasAttachmentWord(part.content_disposition) \/ TruthyName(part.filename)
    THEN Attach(acc, part)
    ELSE acc

\* for part in msg.walk(): the parts in document order; an exception ends it.
RECURSIVE Walk(_, _)
Walk(acc, parts) ==
    IF parts = <<>> \/ acc.raised THEN acc
    ELSE Walk(WalkPart(acc, Head(parts)), Tail(parts))

\* parse_s3_eml (lines 153-212): the record, or None when an exception
\* reached the outer handler.
parse_s3_eml(m) ==
    LET d == parse_and_format_date(get(m.headers, "Date", "Unknown Date"))
        w == Walk([body_text |-> EmptyStr, body_html |-> EmptyStr,
                   attachments |-> <<>>, raised |-> FALSE], m.parts)
    IN  IF w.raised THEN None
        ELSE Some([subject |-> get(m.headers, "Subject", "No Subject"),
                   sender |-> get(m.headers, "From", "Unknown Sender"),
                   recipient |-> get(m.headers, "To", "Unknown Recipient"),
                   date |-> d[1],
                   date_obj |-> d[2],
                   body_text |-> w.body_text,
                   body_html |-> w.body_html,
                   attachments |-> w.attachments])

PipeIdle ==
    /\ bucket = <<>>
    /\ max_workers = 1
    /\ task = <<>>
    /\ runs = <<>>
    /\ parsed = <<>>
    /\ future = <<>>
    /\ submitted = 0
    /\ pcMain = "idle"
    /\ cur = 0
    /\ yielded = {}
    /\ completed = 0
    /\ total = 0
    /\ all_emails_data = <<>>
    /\ max_attachments = 0
    /\ progress = <<>>

\* A call parse_s3_eml(file_content, filename) on any message.
ParseInit ==
    /\ PipeIdle
    /\ msg \in {Some(m) : m \in Messages}
    /\ parse_result = None
    /\ emails = <<>>
    /\ sorted_emails = <<>>
    /\ pcAux = "called"

CallParse ==
    /\ pcAux = "called"
    /\ ~IsNone(msg)
    /\ parse_result' = parse_s3_eml(msg[1])
    /\ pcAux' = "done"
    /\ UNCHANGED <<pipeVars, msg, emails, sorted_emails>>

ParseNext == CallParse

ParseSpec == ParseInit /\ [][ParseNext]_vars

\* ---------------------------------------------------------------- parser properties
ParseDone == pcAux = "done" /\ ~IsNone(msg)
ParseReturnedRecord == ParseDone /\ ~IsNone(parse_result)
Parts == msg[1].parts
Record == parse_result[1]

\* A part the walk takes as a body of the given media type.
IsBody(part, type) ==
    part.content_type = type /\ ~HasAttachmentWord(part.content_disposition)
BodyParts(type) == {k \in 1..Len(Parts) : IsBody(Parts[k], type)}
BodyDecodes == \A k \in 1..Len(Parts) :
    (IsBody(Parts[k], "text/plain") \/ IsBody(Parts[k], "text/html"))
        => Parts[k].decodes
SetMin(S) == CHOOSE x \in S : \A y \in S : x <= y
SetMax(S) == CHOOSE x \in S : \A y \in S : x >= y

\* The attachments of the record are the parts with positions S, in walk order.
AttachmentsAre(S) ==
    LET att == Record.attachments
    IN  /\ Len(att) = Cardinality(S)
        /\ {att[j].content[2] : j \in 1..Len(att)} = S
        /\ \A i, j \in 1..Len(att) : i < j => att[i].content[2] < att[j].content[2]
        /\ \A j \in 1..Len(att) :
              /\ att[j].content[1] = "bytes"
              /\ Parts[att[j].content[2]].filename = Some(att[j].filename)
              /\ Parts[att[j].content[2]].content_type = att[j].content_type

\* C6: body_text is the content of the first qualifying text/plain part of the
\* walk, body_html that of the first qualifying text/html part; later
\* qualifying parts are ignored.
C6_FirstBodyPartWins ==
    ParseReturnedRecord =>
        /\ Record.body_text =
              IF BodyParts("text/plain") = {} THEN EmptyStr
              ELSE Str(SetMin(BodyParts("text/plain")))
        /\ Record.body_html =
              IF BodyParts("text/html") = {} THEN EmptyStr
              ELSE Str(SetMin(BodyParts("text/html")))

\* What lines 178-181 do instead: body_text is the content of the last
\* qualifying text/plain part of the walk, body_html that of the last
\* qualifying text/html part; each is the empty text when no part qualifies.
LastBodyPartWins ==
    ParseReturnedRecord =>
        /\ Record.body_text =
              IF BodyParts("text/plain") = {} THEN EmptyStr
              ELSE Str(SetMax(BodyParts("text/plain")))
        /\ Record.body_html =
              IF BodyParts("text/html") = {} THEN EmptyStr
              ELSE Str(SetMax(BodyParts("text/html")))

TwoPlainBodies ==
    /\ ParseReturnedRecord
    /\ BodyParts("text/plain") = {1, 2}
    /\ Record.body_text = Str(2)

\* C7 as stated: the attachments are, in walk order, all the parts that bear a
\* non-empty filename (such a part is attachment-eligible whatever its media
\* type); a part without a filename gives none.
C7_EveryNamedPartIsAnAttachment ==
    ParseReturnedRecord =>
        AttachmentsAre({k \in 1..Len(Parts) : TruthyName(Parts[k].filename)})

\* C7 amended: the attachments are, in walk order, the parts that bear a
\* non-empty filename, are not taken as a body (a text/plain or text/html part
\* whose Content-Disposition text lacks 'attachment' is a body, filename or
\* not) and whose content decodes; a part without a filename gives none.
C7_NamedNonBodyDecodablePartsAreAttachments ==
    ParseReturnedRecord =>
        AttachmentsAre({k \in 1..Len(Parts) :
            /\ TruthyName(Parts[k].filename)
            /\ ~IsBody(Parts[k], "text/plain")
            /\ ~IsBody(Parts[k], "text/html")
            /\ Parts[k].decodes})

C7_Witness ==
    /\ ParseReturnedRecord
    /\ Len(Record.attachments) = 2
    /\ Record.attachments[1].content_type = "text/plain"
    /\ Record.attachments[1].filename = "report.pdf"
    /\ Record.attachments[2].filename = "attachment.txt"

\* The parts whose content the attachment branch fails to decode.
FailingAttachments ==
    {k \in 1..Len(Parts) :
        /\ ~IsBody(Parts[k], "text/plain")
        /\ ~IsBody(Parts[k], "text/html")
        /\ TruthyName(Parts[k].filename)
        /\ ~Parts[k].decodes}
Without(m, k) ==
    [m EXCEPT !.parts = SubSeq(@, 1, k - 1) \o SubSeq(@, k + 1, Len(@))]

\* C8: a part whose content the attachment branch cannot decode changes
\* nothing but its own absence from the attachments: parse_s3_eml returns what
\* it returns for the message without that part, and it returns a record
\* whenever the body parts decode.
C8_FailingAttachmentOnlySkipped ==
    ParseDone =>
        /\ \A k \in FailingAttachments :
              parse_result = parse_s3_eml(Without(msg[1], k))
        /\ BodyDecodes => ~IsNone(parse_result)

C8_Witness ==
    /\ ParseReturnedRecord
    /\ FailingAttachments = {1}
    /\ Len(Record.attachments) = 1
    /\ Record.attachments[1].content = Bytes(2)
    /\ Record.subject = "Hello"

\* ================================================================ the sort in main
MaxEmails == 4
MaxDate == 3

\* datetime.min; every datetime that parse_and_format_date returns is later
\* (parsedate_tz yields no year below 100).
DatetimeMin == 0

SortRecords ==
    {[date_obj |-> d, sender |-> f] :
        d \in {None} \cup {Some(t) : t \in 1..MaxDate}, f \in {"a", "b"}}

\* key=lambda x: x['date_obj'] if x['date_obj'] else datetime.min
SortKeyNoneLatest(x) == IF ~IsNone(x.date_obj) THEN x.date_obj[1] ELSE MaxDate + 1
SortKey(x) == IF ~IsNone(x.date_obj) THEN x.date_obj[1] ELSE DatetimeMin

\* list.sort(key=..., reverse=True): descending by key, elements of equal key
\* keep their order.
RECURSIVE InsertDesc(_, _)
InsertDesc(s, x) ==
    IF s = <<>> THEN <<x>>
    ELSE IF SortKey(Head(s)) < SortKey(x) THEN <<x>> \o s
    ELSE <<Head(s)>> \o InsertDesc(Tail(s), x)

RECURSIVE SortDesc(_)
SortDesc(s) ==
    IF s = <<>> THEN <<>>
    ELSE InsertDesc(SortDesc(SubSeq(s, 1, Len(s) - 1)), s[Len(s)])

\* main after process_emails_parallel returned a non-empty list (line 356).
SortInit ==
    /\ PipeIdle
    /\ msg = None
    /\ parse_result = None
    /\ emails \in SeqsUpTo(SortRecords, MaxEmails) \ {<<>>}
    /\ sorted_emails = <<>>
    /\ pcAux = "called"

\* all_emails_data.sort(...) (line 361)
MainSort ==
    /\ pcAux = "called"
    /\ emails # <<>>
    /\ sorted_emails' = SortDesc(emails)
    /\ pcAux' = "done"
    /\ UNCHANGED <<pipeVars, msg, parse_result, emails>>

SortNext == MainSort

SortSpec == SortInit /\ [][SortNext]_vars

\* ---------------------------------------------------------------- sort properties
Occurrences(s, r) == Cardinality({k \in 1..Len(s) : s[k] = r})

\* C4: after the sort every record with a date precedes every record without,
\* the dates of the dated records do not increase, and the list is a
\* permutation of the list before the sort.
C4_DatedFirstLatestFirst ==
    (pcAux = "done" /\ emails # <<>>) =>
        /\ \A i, j \in 1..Len(sorted_emails) :
              (i < j /\ ~IsNone(sorted_emails[j].date_obj)) =>
                  /\ ~IsNone(sorted_emails[i].date_obj)
                  /\ sorted_emails[i].date_obj[1] >= sorted_emails[j].date_obj[1]
        /\ Len(sorted_emails) = Len(emails)
        /\ \A r \in SortRecords :
              Occurrences(sorted_emails, r) = Occurrences(emails, r)

C4_Witness ==
    /\ pcAux = "done"
    /\ [k \in 1..Len(emails) |-> emails[k].date_obj]
          = <<Some(3), None, Some(1), Some(2)>>
    /\ [k \in 1..Len(sorted_emails) |-> sorted_emails[k].date_obj]
          = <<Some(3), Some(2), Some(1), None>>

====
